---------------------------- MODULE Spec2Model ----------------------------
(***************************************************************************)
(* A model of ssh_to_terminal.py: the SSH config parser, the derived       *)
(* command line and GUID of an SshHost, the two reconcilers                *)
(* upsert_profiles and remove_profiles, and the driver main.               *)
(*                                                                         *)
(* Three specifications share the module:                                  *)
(*   Spec       a caller applies upsert_profiles / remove_profiles to a    *)
(*              profile list, once or twice;                               *)
(*   SpecMain   repeated runs of main against a persisted settings file;   *)
(*   SpecParse  parse_ssh_config reading a file line by line.              *)
(*                                                                         *)
(* Python values are tagged records, so that None, strings, booleans and   *)
(* dicts can be compared with each other as Python compares them.  List    *)
(* indices are 1-based here and 0-based in the source.                     *)
(***************************************************************************)
EXTENDS Naturals, Sequences, FiniteSets, TLC

VARIABLES
    profiles,       \* the list upsert_profiles / remove_profiles mutate in place
    calls,          \* Spec: the calls made so far, each with the list it was given
    pc,             \* SpecMain / SpecParse: position in main / parse_ssh_config
    args,           \* SpecMain: the parsed command line (add, remove)
    all_hosts,      \* SpecMain: main's all_hosts
    settings_file,  \* SpecMain: the profile list of the settings file on disk
    trace,          \* SpecMain: what the current run of main has done, in order
    runs,           \* SpecMain: the args of the runs of main that have ended
    lines,          \* SpecParse: the lines of the file being parsed
    pos,            \* SpecParse: index of the next line to read
    current_names,  \* SpecParse: parse_ssh_config's current_names
    current_block,  \* SpecParse: parse_ssh_config's current_block
    hosts           \* SpecParse: parse_ssh_config's hosts

vars == <<profiles, calls, pc, args, all_hosts, settings_file, trace, runs,
          lines, pos, current_names, current_block, hosts>>

recVars   == <<profiles, calls>>
mainVars  == <<pc, args, all_hosts, settings_file, trace, runs>>
parseVars == <<lines, pos, current_names, current_block, hosts>>

---------------------------------------------------------------------------
(* Bounds of the model. *)

MaxProfiles == 2    \* longest initial profile list
MaxHosts == 2       \* longest host list handed to a reconciler
MaxRuns == 2        \* runs of main
MaxLines == 3       \* lines of a parsed file

---------------------------------------------------------------------------
(* Python values. *)

PyNone == [t |-> "none"]
PyStr(s) == [t |-> "str", v |-> s]
PyBool(b) == [t |-> "bool", v |-> b]
PyDict(d) == [t |-> "dict", v |-> d]

\* isinstance(x, dict), isinstance(x, str)
IsDict(x) == x.t = "dict"
IsStr(x) == x.t = "str"

\* Python truthiness, as used by `if p.get("name")`, `if self.port`, `a or b`.
Truthy(x) ==
    CASE x.t = "none" -> FALSE
      [] x.t = "str" -> x.v # ""
      [] x.t = "bool" -> x.v
      [] x.t = "dict" -> DOMAIN x.v # {}

\* dict.get(key): the value, or None when the key is absent.
Get(p, key) == IF key \in DOMAIN p.v THEN p.v[key] ELSE PyNone

\* sep.join(parts)
RECURSIVE Join(_, _)
Join(sep, parts) ==
    IF parts = <<>> THEN ""
    ELSE IF Len(parts) = 1 THEN parts[1]
    ELSE parts[1] \o sep \o Join(sep, Tail(parts))

---------------------------------------------------------------------------
(* SshHost. *)

SshHost(name, hostname, user, port, identity_file) ==
    [name |-> name, hostname |-> hostname, user |-> user, port |-> port,
     identity_file |-> identity_file]

\* SshHost(name=n): every other field defaults to None.
SshHostNamed(n) == SshHost(n, PyNone, PyNone, PyNone, PyNone)

\* SshHost.commandline
commandline(self) ==
    LET parts0 == <<"ssh">>
        parts1 == IF Truthy(self.port)
                  THEN parts0 \o <<"-p", self.port.v>> ELSE parts0
        parts2 == IF Truthy(self.identity_file)
                  THEN parts1 \o <<"-i", self.identity_file.v>> ELSE parts1
        target0 == IF Truthy(self.hostname) THEN self.hostname.v ELSE self.name
        target == IF Truthy(self.user)
                  THEN self.user.v \o "@" \o target0 ELSE target0
    IN Join(" ", Append(parts2, target))

\* The namespace UUID of SshHost.guid.
GuidNamespace == "12345678-1234-5678-1234-567812345678"

\* str(uuid.uuid5(ns, name)): a SHA-1 based UUID, a function of (ns, name)
\* alone.  The digest is stood for by the text it is computed from, which keeps
\* it deterministic and, as SHA-1 is taken to be on these inputs, free of
\* collisions.
uuid5(ns, name) == "uuid5(" \o ns \o "," \o name \o ")"

\* SshHost.guid
guid(self) == uuid5(GuidNamespace, "ssh-to-terminal:" \o self.name)

\* f"{{{x}}}"
Braced(x) == "{" \o x \o "}"

---------------------------------------------------------------------------
(* upsert_profiles. *)

\* A by_name that records no existing profile: every host is appended.
by_name_missing(ps) == [k \in {} |-> 0]

\* by_name = {p.get("name"): i for i, p in enumerate(profiles)
\*            if isinstance(p, dict) and p.get("name")}
\* A later entry with the same name overwrites the index of an earlier one.
by_name_of(ps) ==
    LET named == {i \in 1..Len(ps) : IsDict(ps[i]) /\ Truthy(Get(ps[i], "name"))}
        keys == {Get(ps[i], "name") : i \in named}
    IN [k \in keys |->
          CHOOSE i \in named :
              /\ Get(ps[i], "name") = k
              /\ \A j \in named : Get(ps[j], "name") = k => j <= i]

\* A profile that also carries the 'source' key.
NewProfileWithSource(host) ==
    PyDict([name |-> PyStr(host.name),
            commandline |-> PyStr(commandline(host)),
            guid |-> PyStr(Braced(guid(host))),
            hidden |-> PyBool(FALSE),
            source |-> PyStr("sshToTerminal")])

\* The profile upsert_profiles builds for a host.
NewProfile(host) ==
    PyDict([name |-> PyStr(host.name),
            commandline |-> PyStr(commandline(host)),
            guid |-> PyStr(Braced(guid(host))),
            hidden |-> PyBool(FALSE)])

\* profiles[by_name[host.name]] = profile
OverwriteAt(ps, i, profile) == [ps EXCEPT ![i] = profile]

\* profiles.insert(0, profile)
InsertFirst(ps, profile) == <<profile>> \o ps

\* profiles.append(profile)
AppendNew(ps, profile) == Append(ps, profile)

\* One pass of the loop body of upsert_profiles.
UpsertOne(ps, by_name, host) ==
    IF PyStr(host.name) \in DOMAIN by_name
    THEN OverwriteAt(ps, by_name[PyStr(host.name)], NewProfile(host))
    ELSE AppendNew(ps, NewProfile(host))

\* for host in ssh_hosts: ...   (by_name is built once, before the loop)
RECURSIVE UpsertLoop(_, _, _)
UpsertLoop(ps, by_name, ssh_hosts) ==
    IF ssh_hosts = <<>> THEN ps
    ELSE UpsertLoop(UpsertOne(ps, by_name, Head(ssh_hosts)), by_name,
                    Tail(ssh_hosts))

upsert_profiles(ps, ssh_hosts) == UpsertLoop(ps, by_name_of(ps), ssh_hosts)

---------------------------------------------------------------------------
(* remove_profiles. *)

\* names = {h.name for h in ssh_hosts}
NamesOf(ssh_hosts) == {ssh_hosts[i].name : i \in 1..Len(ssh_hosts)}

\* `n in names` for a profile's name n: only a string equals a host's name.
NameIn(n, names) == IsStr(n) /\ n.v \in names

\* The heuristic comparing with the bare GUID, braces left out.
LooksLikeOursUnbraced(p) ==
    LET n == Get(p, "name")
        g == Get(p, "guid")
    IN /\ IsStr(n)
       /\ IsStr(g)
       /\ g.v = guid(SshHostNamed(n.v))

\* The guid heuristic of remove_profiles: name and guid are strings and guid
\* is the braced GUID derived from the profile's own name.
LooksLikeOurs(p) ==
    LET n == Get(p, "name")
        g == Get(p, "guid")
    IN /\ IsStr(n)
       /\ IsStr(g)
       /\ g.v = Braced(guid(SshHostNamed(n.v)))

\* The loop body with the `if not names` guard left out.
DroppedUnguarded(p, names) ==
    /\ IsDict(p)
    /\ \/ NameIn(Get(p, "name"), names)
       \/ LooksLikeOurs(p)

\* Whether the loop body of remove_profiles drops the entry p.
Dropped(p, names) ==
    /\ IsDict(p)
    /\ \/ NameIn(Get(p, "name"), names)
       \/ names = {} /\ LooksLikeOurs(p)

\* for p in profiles: ... keep.append(p)
RECURSIVE RemoveLoop(_, _, _)
RemoveLoop(ps, names, keep) ==
    IF ps = <<>> THEN keep
    ELSE RemoveLoop(Tail(ps), names,
                    IF Dropped(Head(ps), names) THEN keep
                    ELSE Append(keep, Head(ps)))

\* profiles[:] = keep
remove_profiles(ps, ssh_hosts) == RemoveLoop(ps, NamesOf(ssh_hosts), <<>>)

---------------------------------------------------------------------------
(* The inputs of the reconcilers. *)

\* Hosts as parse_ssh_config yields them: a non-empty name, every other field
\* None or a non-empty string.
HostA1 == SshHost("A", PyStr("1.2.3.4"), PyStr("alice"), PyStr("2222"),
                  PyStr("/id_rsa"))
HostA2 == SshHostNamed("A")
HostB == SshHost("B", PyStr("example.com"), PyNone, PyNone, PyNone)
HostC == SshHost("C", PyNone, PyStr("bob"), PyNone, PyNone)
HostSamples == {HostA1, HostA2, HostB, HostC}

\* Entries a settings file holds before the tool has touched it.
EntryJunk == PyStr("junk")
EntryNoName == PyDict([commandline |-> PyStr("cmd.exe"),
                       guid |-> PyStr("{user-guid}")])
EntryUserA == PyDict([name |-> PyStr("A"), commandline |-> PyStr("ssh old"),
                      guid |-> PyStr("{user-guid}"), source |-> PyStr("user")])
EntryUserB == PyDict([name |-> PyStr("B")])
EntryBareC == PyDict([name |-> PyStr("C"), guid |-> PyStr(guid(HostC))])
UserEntries == {EntryJunk, EntryNoName, EntryUserA, EntryUserB, EntryBareC}

\* A profile an earlier upsert_profiles wrote for a host named C.
EntryOwnedC == PyDict([name |-> PyStr("C"), commandline |-> PyStr("ssh c"),
                       guid |-> PyStr(Braced(guid(HostC))),
                       hidden |-> PyBool(FALSE)])
EntrySamples == UserEntries \cup {EntryOwnedC}

SeqsUpTo(S, n) == UNION {[1..k -> S] : k \in 0..n}

HostLists == SeqsUpTo(HostSamples, MaxHosts)
ProfileLists == SeqsUpTo(EntrySamples, MaxProfiles)
UserProfileLists == SeqsUpTo(UserEntries, MaxProfiles)

---------------------------------------------------------------------------
(* Spec: a caller applies the reconcilers to a profile list. *)

\* No command line parsed yet.
NoArgs == [add |-> FALSE, remove |-> FALSE]

\* The settings path does not exist.
NoSettingsFile == [exists |-> FALSE, list |-> <<>>]

\* The variables of main and of the parser, at rest.
MainIdle ==
    /\ pc = "idle"
    /\ args = NoArgs
    /\ all_hosts = <<>>
    /\ settings_file = NoSettingsFile
    /\ trace = <<>>
    /\ runs = <<>>

ParseIdle ==
    /\ lines = <<>>
    /\ pos = 1
    /\ current_names = <<>>
    /\ current_block = <<>>
    /\ hosts = <<>>

Init ==
    /\ profiles \in ProfileLists
    /\ calls = <<>>
    /\ MainIdle
    /\ ParseIdle

\* The host list of a call: any for the first call; the second call is given
\* the first call's list again, or no hosts.
ArgHosts == IF calls = <<>> THEN HostLists ELSE {calls[1].ssh_hosts, <<>>}

\* No call has been made, or one.
MayCall == calls = <<>> \/ Len(calls) = 1

CallUpsert ==
    /\ MayCall
    /\ \E H \in ArgHosts :
          /\ profiles' = upsert_profiles(profiles, H)
          /\ calls' = Append(calls, [op |-> "upsert", ssh_hosts |-> H,
                                     before |-> profiles])
    /\ UNCHANGED <<mainVars, parseVars>>

CallRemove ==
    /\ MayCall
    /\ \E H \in ArgHosts :
          /\ profiles' = remove_profiles(profiles, H)
          /\ calls' = Append(calls, [op |-> "remove", ssh_hosts |-> H,
                                     before |-> profiles])
    /\ UNCHANGED <<mainVars, parseVars>>

Next == CallUpsert \/ CallRemove

Spec == Init /\ [][Next]_vars

---------------------------------------------------------------------------
(* SpecMain: runs of main, one after the other, on one settings file. *)

\* What the scan of the SSH directory yields (discover_ssh_config_files and
\* parse_ssh_config over every file found, concatenated).
ScannedHostLists == SeqsUpTo({HostA1, HostB}, MaxHosts)

\* The settings files main may find before its first run: none, or one whose
\* profile list holds entries the tool did not write.
InitialSettings ==
    {NoSettingsFile} \cup
    {[exists |-> TRUE, list |-> l] : l \in SeqsUpTo({EntryJunk, EntryUserA}, MaxProfiles)}

InitMain ==
    /\ settings_file \in InitialSettings
    /\ pc = "idle"
    /\ args = NoArgs
    /\ all_hosts = <<>>
    /\ trace = <<>>
    /\ runs = <<>>
    /\ profiles = <<>>
    /\ calls = <<>>
    /\ ParseIdle

\* load_settings: the document on disk, or the minimal one with an empty list.
load_settings(file) == IF file.exists THEN file.list ELSE <<>>

\* ensure_profiles_container: the document's profiles.list, a list.
ensure_profiles_container(list) == list

\* One entry of the trace of a run: the step, the host list it was given and
\* the profile list in memory after it.
Step(op, H, ps) == [op |-> op, ssh_hosts |-> H, list |-> ps]

\* A run that selects neither --add nor --remove ends with status 2 before
\* anything is scanned, loaded or written.
MainNoAction ==
    /\ pc = "idle"
    /\ Len(runs) < MaxRuns
    /\ args' = NoArgs
    /\ trace' = <<>>
    /\ pc' = "exited"
    /\ UNCHANGED <<all_hosts, settings_file, runs, profiles, calls, parseVars>>

\* parse_args, then the scan that fills all_hosts.
MainScan ==
    /\ pc = "idle"
    /\ Len(runs) < MaxRuns
    /\ \E add, remove \in BOOLEAN, H \in ScannedHostLists :
          /\ add \/ remove
          /\ args' = [add |-> add, remove |-> remove]
          /\ all_hosts' = H
    /\ trace' = <<>>
    /\ pc' = "scanned"
    /\ UNCHANGED <<settings_file, runs, profiles, calls, parseVars>>

\* settings = load_settings(...); profiles = ensure_profiles_container(settings)
MainLoad ==
    /\ pc = "scanned"
    /\ profiles' = ensure_profiles_container(load_settings(settings_file))
    /\ trace' = Append(trace, Step("load", <<>>, profiles'))
    /\ pc' = "loaded"
    /\ UNCHANGED <<args, all_hosts, settings_file, runs, calls, parseVars>>

\* if args.remove: remove_profiles(profiles, all_hosts)
MainRemove ==
    /\ pc = "loaded"
    /\ IF args.remove
       THEN /\ profiles' = remove_profiles(profiles, all_hosts)
            /\ trace' = Append(trace, Step("remove", all_hosts, profiles'))
       ELSE UNCHANGED <<profiles, trace>>
    /\ pc' = "removed"
    /\ UNCHANGED <<args, all_hosts, settings_file, runs, calls, parseVars>>

\* if args.add: upsert_profiles(profiles, all_hosts)
MainAdd ==
    /\ pc = "removed"
    /\ IF args.add
       THEN /\ profiles' = upsert_profiles(profiles, all_hosts)
            /\ trace' = Append(trace, Step("upsert", all_hosts, profiles'))
       ELSE UNCHANGED <<profiles, trace>>
    /\ pc' = "added"
    /\ UNCHANGED <<args, all_hosts, settings_file, runs, calls, parseVars>>

\* A save right after the removal, before the add.
MainSaveEarly ==
    /\ pc = "removed"
    /\ settings_file' = [exists |-> TRUE, list |-> profiles]
    /\ trace' = Append(trace, Step("save", <<>>, profiles))
    /\ pc' = "exited"
    /\ UNCHANGED <<args, all_hosts, runs, profiles, calls, parseVars>>

\* save_settings(settings_path, settings, ...): validation is best effort and
\* never stops the write.
MainSave ==
    /\ pc = "added"
    /\ settings_file' = [exists |-> TRUE, list |-> profiles]
    /\ trace' = Append(trace, Step("save", <<>>, profiles))
    /\ pc' = "exited"
    /\ UNCHANGED <<args, all_hosts, runs, profiles, calls, parseVars>>

\* The process ends: its memory is gone, the settings file stays.
MainExit ==
    /\ pc = "exited"
    /\ runs' = Append(runs, args)
    /\ args' = NoArgs
    /\ all_hosts' = <<>>
    /\ profiles' = <<>>
    /\ trace' = <<>>
    /\ pc' = "idle"
    /\ UNCHANGED <<settings_file, calls, parseVars>>

NextMain ==
    \/ MainNoAction
    \/ MainScan
    \/ MainLoad
    \/ MainRemove
    \/ MainAdd
    \/ MainSave
    \/ MainExit

SpecMain == InitMain /\ [][NextMain]_vars

---------------------------------------------------------------------------
(* Text: a line is a sequence of one-character strings. *)

UpperCase == <<"A", "B", "C", "D", "E", "F", "G", "H", "I", "J", "K", "L", "M",
               "N", "O", "P", "Q", "R", "S", "T", "U", "V", "W", "X", "Y", "Z">>
LowerCase == <<"a", "b", "c", "d", "e", "f", "g", "h", "i", "j", "k", "l", "m",
               "n", "o", "p", "q", "r", "s", "t", "u", "v", "w", "x", "y", "z">>
Digits == {"0", "1", "2", "3", "4", "5", "6", "7", "8", "9"}

\* The characters \s matches and str.strip() / str.split() remove.
Whitespace == {" ", "\t"}

\* The characters \w matches.
WordChars ==
    {UpperCase[i] : i \in 1..Len(UpperCase)} \cup
    {LowerCase[i] : i \in 1..Len(LowerCase)} \cup Digits \cup {"_"}

\* str.lower(), and what re.IGNORECASE compares by.
LowerChar(c) ==
    IF \E i \in 1..Len(UpperCase) : UpperCase[i] = c
    THEN LowerCase[CHOOSE i \in 1..Len(UpperCase) : UpperCase[i] = c]
    ELSE c
Lower(s) == [i \in 1..Len(s) |-> LowerChar(s[i])]

\* The Python str of a sequence of characters.
RECURSIVE Str(_)
Str(s) == IF s = <<>> THEN "" ELSE Head(s) \o Str(Tail(s))

RECURSIVE LStrip(_)
LStrip(s) ==
    IF s # <<>> /\ Head(s) \in Whitespace THEN LStrip(Tail(s)) ELSE s

RECURSIVE RStrip(_)
RStrip(s) ==
    IF s # <<>> /\ s[Len(s)] \in Whitespace
    THEN RStrip(SubSeq(s, 1, Len(s) - 1)) ELSE s

\* str.strip()
Strip(s) == RStrip(LStrip(s))

\* The length of the longest prefix of s made of characters of set C.
RECURSIVE PrefixLen(_, _)
PrefixLen(s, C) ==
    IF s # <<>> /\ Head(s) \in C THEN 1 + PrefixLen(Tail(s), C) ELSE 0

\* str.split(): the maximal runs of non-whitespace characters.
RECURSIVE Split(_)
Split(s) ==
    LET t == LStrip(s)
        n == PrefixLen(t, {t[i] : i \in 1..Len(t)} \ Whitespace)
    IN IF t = <<>> THEN <<>>
       ELSE <<SubSeq(t, 1, n)>> \o Split(SubSeq(t, n + 1, Len(t)))

---------------------------------------------------------------------------
(* parse_ssh_config. *)

SUPPORTED_KEYS == {"hostname", "user", "port", "identityfile"}

\* HOST_LINE_RE.match(line): "host" in any case at the start of the line as it
\* is, then \s+ and .+, so a whitespace character and at least one more
\* character of any kind.
HOST_LINE_RE(line) ==
    /\ Len(line) >= Len(<<"h", "o", "s", "t">>) + 2
    /\ Lower(SubSeq(line, 1, 4)) = <<"h", "o", "s", "t">>
    /\ line[5] \in Whitespace

\* m.group("patterns"): \s+ is greedy but leaves .+ one character.
PatternsGroup(line) ==
    LET rest == SubSeq(line, 5, Len(line))
        ws == PrefixLen(rest, Whitespace)
    IN IF ws < Len(rest) THEN SubSeq(rest, ws + 1, Len(rest))
       ELSE SubSeq(rest, Len(rest), Len(rest))

\* KV_RE.match(s) for a stripped s: \w+, then \s+, then .+
KV_RE(s) ==
    LET k == PrefixLen(s, WordChars)
    IN k >= 1 /\ k < Len(s) /\ s[k + 1] \in Whitespace

\* km.group("key").lower()
KeyGroup(s) == Str(Lower(SubSeq(s, 1, PrefixLen(s, WordChars))))

\* km.group("value").strip()
ValueGroup(s) ==
    Str(Strip(SubSeq(s, PrefixLen(s, WordChars) + 1, Len(s))))

\* `not line.strip() or line.strip().startswith("#")`
IsSkipped(line) ==
    IF Strip(line) = <<>> THEN TRUE ELSE Head(Strip(line)) = "#"

\* A wildcard test that knows '*' only.
IsWildcardStarOnly(hn) == \E i \in 1..Len(hn) : hn[i] = "*"

\* any(ch in hn for ch in ("*", "?"))
IsWildcard(hn) == \E i \in 1..Len(hn) : hn[i] \in {"*", "?"}

EmptyBlock == [k \in {} |-> ""]

\* current_block.get(key)
BlockGet(block, key) == IF key \in DOMAIN block THEN PyStr(block[key]) ELSE PyNone

\* current_block[key] = val
BlockSet(block, key, val) ==
    [k \in DOMAIN block \cup {key} |-> IF k = key THEN val ELSE block[k]]

\* The SshHost records flush appends for the names of a block.
RECURSIVE HostsOfBlock(_, _)
HostsOfBlock(names, block) ==
    IF names = <<>> THEN <<>>
    ELSE IF IsWildcard(Head(names)) THEN HostsOfBlock(Tail(names), block)
    ELSE <<SshHost(Str(Head(names)), BlockGet(block, "hostname"),
                   BlockGet(block, "user"), BlockGet(block, "port"),
                   BlockGet(block, "identityfile"))>>
         \o HostsOfBlock(Tail(names), block)

\* flush(): with no pending names it returns at once, and nothing is reset.
flush(hs, names, block) ==
    IF names = <<>>
    THEN [hosts |-> hs, current_names |-> names, current_block |-> block]
    ELSE [hosts |-> hs \o HostsOfBlock(names, block),
          current_names |-> <<>>, current_block |-> EmptyBlock]

\* The lines a parsed file is made of.
LineHostA == <<"H", "o", "s", "t", " ", "a">>    \* 'Host a'
LineHostMany == <<"H", "O", "S", "T", " ", "b", " ", " ", "c", "?", " ", "d">>    \* 'HOST b  c? d'
LineHostStar == <<"H", "o", "s", "t", " ", "*">>    \* 'Host *'
LineHostNone == <<"H", "o", "s", "t", " ", " ">>    \* 'Host  '
LineIndentedHost == <<" ", "H", "o", "s", "t", " ", "z">>    \* ' Host z'
LineUserU == <<"\t", "U", "s", "e", "r", " ", "u">>    \* '\tUser u'
LineUserV == <<"u", "s", "e", "r", " ", "v", " ", "x">>    \* 'user v x'
LineHostName == <<"H", "o", "s", "t", "N", "a", "m", "e", " ", "h">>    \* 'HostName h'
LinePort == <<"P", "o", "r", "t", " ", "2", " ">>    \* 'Port 2 '
LineProxy == <<"P", "r", "o", "x", "y", " ", "p">>    \* 'Proxy p'
LineNoValue == <<"P", "o", "r", "t", "=", "3">>    \* 'Port=3'
LineComment == <<" ", "#", " ", "c">>    \* ' # c'
LineBlank == <<" ">>    \* ' '
LineSamples ==
    {LineHostA, LineHostMany, LineHostStar, LineHostNone,
     LineIndentedHost, LineUserU, LineUserV, LineHostName,
     LinePort, LineProxy, LineNoValue, LineComment,
     LineBlank}

Files == SeqsUpTo(LineSamples, MaxLines)

InitParse ==
    /\ lines \in Files
    /\ pos = 1
    /\ current_names = <<>>
    /\ current_block = EmptyBlock
    /\ hosts = <<>>
    /\ pc = "reading"
    /\ args = NoArgs
    /\ all_hosts = <<>>
    /\ settings_file = NoSettingsFile
    /\ trace = <<>>
    /\ runs = <<>>
    /\ profiles = <<>>
    /\ calls = <<>>

AtLine == pc = "reading" /\ pos <= Len(lines)

\* A blank line or a comment: continue.
ParseSkip ==
    /\ AtLine
    /\ IsSkipped(lines[pos])
    /\ pos' = pos + 1
    /\ UNCHANGED <<current_names, current_block, hosts, lines, pc,
                   args, all_hosts, settings_file, trace, runs, recVars>>

\* A Host line: flush the pending block, then start a new one.
ParseHostLine ==
    /\ AtLine
    /\ ~IsSkipped(lines[pos])
    /\ HOST_LINE_RE(lines[pos])
    /\ LET f == flush(hosts, current_names, current_block)
       IN /\ hosts' = f.hosts
          /\ current_block' = f.current_block
          /\ current_names' = Split(PatternsGroup(lines[pos]))
    /\ pos' = pos + 1
    /\ UNCHANGED <<lines, pc, args, all_hosts, settings_file, trace, runs, recVars>>

\* A key/value line: a supported key is stored, any other key is dropped.
ParseKeyValue ==
    /\ AtLine
    /\ ~IsSkipped(lines[pos])
    /\ ~HOST_LINE_RE(lines[pos])
    /\ KV_RE(Strip(lines[pos]))
    /\ LET key == KeyGroup(Strip(lines[pos]))
           val == ValueGroup(Strip(lines[pos]))
       IN current_block' = IF key \in SUPPORTED_KEYS
                           THEN BlockSet(current_block, key, val)
                           ELSE current_block
    /\ pos' = pos + 1
    /\ UNCHANGED <<current_names, hosts, lines, pc,
                   args, all_hosts, settings_file, trace, runs, recVars>>

\* A line of no known shape: nothing happens.
ParseOther ==
    /\ AtLine
    /\ ~IsSkipped(lines[pos])
    /\ ~HOST_LINE_RE(lines[pos])
    /\ ~KV_RE(Strip(lines[pos]))
    /\ pos' = pos + 1
    /\ UNCHANGED <<current_names, current_block, hosts, lines, pc,
                   args, all_hosts, settings_file, trace, runs, recVars>>

\* End of file: the last flush, and hosts is returned.
ParseEnd ==
    /\ pc = "reading"
    /\ pos > Len(lines)
    /\ LET f == flush(hosts, current_names, current_block)
       IN /\ hosts' = f.hosts
          /\ current_block' = f.current_block
          /\ current_names' = f.current_names
    /\ pc' = "done"
    /\ UNCHANGED <<lines, pos, args, all_hosts, settings_file, trace, runs, recVars>>

NextParse ==
    \/ ParseSkip
    \/ ParseHostLine
    \/ ParseKeyValue
    \/ ParseOther
    \/ ParseEnd

SpecParse == InitParse /\ [][NextParse]_vars

---------------------------------------------------------------------------
(* Vocabulary of the properties of the reconcilers. *)

LastCall == calls[Len(calls)]
After(op) == calls # <<>> /\ LastCall.op = op

\* A record entry that has a name.
HasName(e) == IsDict(e) /\ "name" \in DOMAIN e.v

\* A record entry whose name is the name of one of the hosts.
NamedIn(e, H) ==
    /\ HasName(e)
    /\ \E i \in 1..Len(H) : e.v["name"] = PyStr(H[i].name)

\* A tool-owned profile: name and guid are strings and guid is
\* "{" + identity(name) + "}".
ToolOwned(e) ==
    /\ HasName(e)
    /\ "guid" \in DOMAIN e.v
    /\ IsStr(e.v["name"])
    /\ IsStr(e.v["guid"])
    /\ e.v["guid"].v = "{" \o guid(SshHostNamed(e.v["name"].v)) \o "}"

NotToolOwned(e) == ~ToolOwned(e)

\* s can be obtained from t by deleting entries.
RECURSIVE IsSubseq(_, _)
IsSubseq(s, t) ==
    IF s = <<>> THEN TRUE
    ELSE IF t = <<>> THEN FALSE
    ELSE IF Head(s) = Head(t) THEN IsSubseq(Tail(s), Tail(t))
    ELSE IsSubseq(s, Tail(t))

\* The entries of ps that are not records named after a host of H, in order.
RECURSIVE Unrelated(_, _)
Unrelated(ps, H) ==
    IF ps = <<>> THEN <<>>
    ELSE IF NamedIn(Head(ps), H) THEN Unrelated(Tail(ps), H)
    ELSE <<Head(ps)>> \o Unrelated(Tail(ps), H)

NoDupNames(ps) ==
    \A i, j \in 1..Len(ps) :
        (i < j /\ HasName(ps[i]) /\ HasName(ps[j]))
            => ps[i].v["name"] # ps[j].v["name"]

UpsertThen(op) ==
    /\ Len(calls) = 2
    /\ calls[1].op = "upsert"
    /\ calls[2].op = op
    /\ calls[2].ssh_hosts = calls[1].ssh_hosts

---------------------------------------------------------------------------
(* Properties of upsert_profiles and remove_profiles, under Spec. *)

\* C1: after upsert_profiles returns, no two record entries of the profile
\* list have the same name, whatever the initial list and the host list.
C1_UniqueNamesAfterUpsert == After("upsert") => NoDupNames(profiles)

\* C2: upsert_profiles is idempotent: applying it a second time with the same
\* host list leaves the list exactly as the first application left it.
C2_UpsertIdempotent == UpsertThen("upsert") => profiles = calls[2].before

\* C2 witness: a second upsert with two different hosts of one name, which
\* the first one appended to a list that was not empty.
C2_Witness ==
    /\ UpsertThen("upsert")
    /\ calls[1].before # <<>>
    /\ Len(calls[2].before) > Len(calls[1].before)
    /\ \E i, j \in 1..Len(calls[1].ssh_hosts) :
          /\ i < j
          /\ calls[1].ssh_hosts[i].name = calls[1].ssh_hosts[j].name
          /\ calls[1].ssh_hosts[i] # calls[1].ssh_hosts[j]

\* C3 as stated: after upsert_profiles(P, H) then remove_profiles(P, H), for
\* every H including the empty one, no entry is named after a host of H and
\* every entry of P not named after a host of H is still there, in order.
C3_RoundTripAnyHosts ==
    UpsertThen("remove") =>
        /\ \A i \in 1..Len(profiles) : ~NamedIn(profiles[i], calls[1].ssh_hosts)
        /\ IsSubseq(Unrelated(calls[1].before, calls[1].ssh_hosts), profiles)

\* C3 amended: for a non-empty H the round trip leaves exactly the entries of
\* P not named after a host of H, unchanged and in order; for the empty H it
\* leaves exactly the entries of P that are not tool-owned.
C3_RoundTrip ==
    UpsertThen("remove") =>
        IF calls[1].ssh_hosts # <<>>
        THEN /\ \A i \in 1..Len(profiles) :
                    ~NamedIn(profiles[i], calls[1].ssh_hosts)
             /\ profiles = Unrelated(calls[1].before, calls[1].ssh_hosts)
        ELSE profiles = SelectSeq(calls[1].before, NotToolOwned)

\* C3 witness: a round trip with hosts, over a list that holds a tool-owned
\* profile of another name, which survives, and an entry the upsert overwrote.
C3_Witness ==
    /\ UpsertThen("remove")
    /\ calls[1].ssh_hosts # <<>>
    /\ \E i \in 1..Len(profiles) : ToolOwned(profiles[i])
    /\ \E i \in 1..Len(calls[1].before) : calls[2].before[i] # calls[1].before[i]

\* C4: remove_profiles with an empty host list removes a record entry if and
\* only if it is tool-owned; everything else is kept, and every profile an
\* earlier upsert_profiles wrote is removed.
C4_EmptyRemoveDropsOnlyOwned ==
    (After("remove") /\ LastCall.ssh_hosts = <<>>) =>
        /\ profiles = SelectSeq(LastCall.before, NotToolOwned)
        /\ (Len(calls) = 2 /\ calls[1].op = "upsert") =>
              \A i \in 1..Len(profiles), k \in 1..Len(calls[1].ssh_hosts) :
                  profiles[i] # NewProfile(calls[1].ssh_hosts[k])

\* C4 witness: an upsert with hosts, then a removal with no hosts that drops
\* the written profile and keeps an entry carrying the unbraced GUID.
C4_Witness ==
    /\ Len(calls) = 2
    /\ calls[1].op = "upsert"
    /\ calls[1].ssh_hosts # <<>>
    /\ calls[2].op = "remove"
    /\ calls[2].ssh_hosts = <<>>
    /\ Len(profiles) < Len(calls[2].before)
    /\ \E i \in 1..Len(profiles) : profiles[i] = EntryBareC

\* An entry of the list after the last call that the call wrote: it lies
\* beyond the end of the list the call was given, or differs from what was
\* there.
Written(i) == i > Len(LastCall.before) \/ profiles[i] # LastCall.before[i]

\* The entries of ps that are not records, in order.
RECURSIVE NonRecords(_)
NonRecords(ps) ==
    IF ps = <<>> THEN <<>>
    ELSE IF IsDict(Head(ps)) THEN NonRecords(Tail(ps))
    ELSE <<Head(ps)>> \o NonRecords(Tail(ps))

\* C6: upsert_profiles never removes an entry nor moves a pre-existing one,
\* leaves every entry that is not a record named after a host identical,
\* overwrites a same-named profile at its index and adds new profiles only at
\* the end; remove_profiles keeps entries unmodified and in order, and keeps
\* every non-record entry.
C6_ForeignEntriesUntouched ==
    /\ After("upsert") =>
          LET P == LastCall.before
              H == LastCall.ssh_hosts
          IN /\ Len(profiles) >= Len(P)
             /\ \A i \in 1..Len(P) :
                   /\ ~NamedIn(P[i], H) => profiles[i] = P[i]
                   /\ \/ profiles[i] = P[i]
                      \/ /\ NamedIn(P[i], H)
                         /\ HasName(profiles[i])
                         /\ profiles[i].v["name"] = P[i].v["name"]
             /\ \A i \in (Len(P) + 1)..Len(profiles) :
                   /\ NamedIn(profiles[i], H)
                   /\ \A j \in 1..Len(P) :
                         HasName(P[j]) => P[j].v["name"] # profiles[i].v["name"]
    /\ After("remove") =>
          /\ IsSubseq(profiles, LastCall.before)
          /\ NonRecords(profiles) = NonRecords(LastCall.before)

\* C6 witness: an upsert that overwrote one entry in place and appended
\* another, next to a foreign entry it left alone; then a removal that dropped
\* entries and kept a non-record.
C6_Witness ==
    /\ UpsertThen("remove")
    /\ Len(calls[2].before) > Len(calls[1].before)
    /\ \E i \in 1..Len(calls[1].before) : calls[2].before[i] # calls[1].before[i]
    /\ calls[1].before[1] = EntryJunk
    /\ Len(profiles) < Len(calls[2].before)
    /\ profiles # <<>>

\* The command line of a host, by cases: ssh, then -p port, then
\* -i identityFile, then [user@](hostname, else name).
ExpectedCommand(h) ==
    "ssh"
    \o (IF h.port # PyNone THEN " -p " \o h.port.v ELSE "")
    \o (IF h.identity_file # PyNone THEN " -i " \o h.identity_file.v ELSE "")
    \o " "
    \o (IF h.user # PyNone THEN h.user.v \o "@" ELSE "")
    \o (IF h.hostname # PyNone THEN h.hostname.v ELSE h.name)

\* The profile of a host: the keys name, commandline, guid and hidden only.
IsProfileOf(e, h) ==
    /\ IsDict(e)
    /\ DOMAIN e.v = {"name", "commandline", "guid", "hidden"}
    /\ e.v["name"] = PyStr(h.name)
    /\ e.v["commandline"] = PyStr(ExpectedCommand(h))
    /\ e.v["hidden"] = PyBool(FALSE)
    /\ e.v["guid"] = PyStr("{" \o guid(SshHostNamed(h.name)) \o "}")

---------------------------------------------------------------------------
(* Properties of main, under SpecMain. *)

\* A run that selected an action is under way or has just saved.
InRun == pc \in {"scanned", "loaded", "removed", "added", "exited"} /\ args # NoArgs

\* The steps a run takes, in order, given its args.
RunPlan ==
    <<"load">>
    \o (IF args.remove THEN <<"remove">> ELSE <<>>)
    \o (IF args.add THEN <<"upsert">> ELSE <<>>)
    \o <<"save">>

OpsOf(tr) == [i \in 1..Len(tr) |-> tr[i].op]

IsPrefix(s, t) == Len(s) <= Len(t) /\ \A i \in 1..Len(s) : s[i] = t[i]

\* C5: over runs that each remove and then add against that run's host list,
\* after every run each tool-owned profile of the list is named after a host
\* of that run's list.
C5_NoOrphanAfterRun ==
    (/\ pc = "exited"
     /\ args.remove /\ args.add
     /\ \A r \in 1..Len(runs) : runs[r].remove /\ runs[r].add)
    => \A i \in 1..Len(settings_file.list) :
          ToolOwned(settings_file.list[i]) => NamedIn(settings_file.list[i], all_hosts)

\* C9: in a run with both actions remove_profiles is applied before
\* upsert_profiles, both on main's one host list, and the settings are
\* persisted only after both; a run with one action applies only that one
\* before persisting.
C9_RemoveThenAddThenSave ==
    InRun =>
        /\ IsPrefix(OpsOf(trace), RunPlan)
        /\ \A i \in 1..Len(trace) :
              trace[i].op \in {"remove", "upsert"} => trace[i].ssh_hosts = all_hosts
        /\ (pc # "exited" /\ trace # <<>>) => load_settings(settings_file) = trace[1].list
        /\ pc = "exited" =>
              /\ OpsOf(trace) = RunPlan
              /\ LET l0 == trace[1].list
                     l1 == IF args.remove THEN remove_profiles(l0, all_hosts) ELSE l0
                     l2 == IF args.add THEN upsert_profiles(l1, all_hosts) ELSE l1
                 IN settings_file = [exists |-> TRUE, list |-> l2]

\* C9 witness: a run with both actions has saved, after a removal that dropped
\* an entry and an add that wrote one.
C9_Witness ==
    /\ pc = "exited"
    /\ args.remove /\ args.add
    /\ Len(trace) = 4
    /\ Len(trace[2].list) < Len(trace[1].list)
    /\ Len(trace[3].list) > Len(trace[2].list)
    /\ settings_file.list = trace[3].list

---------------------------------------------------------------------------
(* Properties of parse_ssh_config, under SpecParse. *)

\* The lines that open a Host block.
IsHostLine(l) == ~IsSkipped(l) /\ HOST_LINE_RE(l)

\* The pattern tokens of a Host line: what follows the keyword, split at
\* whitespace.
TokensOf(l) == Split(SubSeq(l, 5, Len(l)))

\* A token with neither '*' nor '?'.
IsConcrete(t) == \A i \in 1..Len(t) : t[i] # "*" /\ t[i] # "?"

ConcreteTokensOf(l) == SelectSeq(TokensOf(l), IsConcrete)

\* The last line of the block that the Host line i opens.
BlockEnd(ls, i) ==
    IF \E j \in (i + 1)..Len(ls) : IsHostLine(ls[j])
    THEN (CHOOSE j \in (i + 1)..Len(ls) :
              /\ IsHostLine(ls[j])
              /\ \A m \in (i + 1)..(j - 1) : ~IsHostLine(ls[m])) - 1
    ELSE Len(ls)

\* A recognized directive line with the given key.
IsDirective(l, key) ==
    /\ ~IsSkipped(l)
    /\ ~HOST_LINE_RE(l)
    /\ KV_RE(Strip(l))
    /\ KeyGroup(Strip(l)) = key

\* The value of the last directive with the key inside the block of Host line
\* i, or None.
BlockValue(ls, i, key) ==
    LET js == {j \in (i + 1)..BlockEnd(ls, i) : IsDirective(ls[j], key)}
    IN IF js = {} THEN PyNone
       ELSE PyStr(ValueGroup(Strip(ls[CHOOSE j \in js : \A m \in js : m <= j])))

\* For each record the file should yield, in order: the name and the Host line
\* of its block.
RECURSIVE ExpectedFrom(_, _)
ExpectedFrom(ls, i) ==
    IF i > Len(ls) THEN <<>>
    ELSE (IF IsHostLine(ls[i])
          THEN [k \in 1..Len(ConcreteTokensOf(ls[i])) |->
                   [name |-> Str(ConcreteTokensOf(ls[i])[k]), block |-> i]]
          ELSE <<>>)
         \o ExpectedFrom(ls, i + 1)

Expected(ls) == ExpectedFrom(ls, 1)

\* The names of the wildcard tokens of the Host lines of the file.
WildcardNames(ls) ==
    UNION {{Str(TokensOf(ls[i])[k]) :
               k \in {k \in 1..Len(TokensOf(ls[i])) : ~IsConcrete(TokensOf(ls[i])[k])}} :
           i \in {i \in 1..Len(ls) : IsHostLine(ls[i])}}

Directives(h) == <<h.hostname, h.user, h.port, h.identity_file>>

\* C8: for every Host block parse_ssh_config emits one record per pattern
\* token without '*' or '?', in the order of the tokens and blocks, the
\* records of one block with the same directive values; no record is named by
\* a wildcard token and an all-wildcard block emits nothing.
C8_OneRecordPerConcretePattern ==
    pc = "done" =>
        LET E == Expected(lines)
        IN /\ Len(hosts) = Len(E)
           /\ \A j \in 1..Len(hosts) : hosts[j].name = E[j].name
           /\ \A j, m \in 1..Len(hosts) :
                 E[j].block = E[m].block => Directives(hosts[j]) = Directives(hosts[m])
           /\ \A j \in 1..Len(hosts) : hosts[j].name \notin WildcardNames(lines)

\* C8 witness: a parsed file with a block of two concrete patterns and a
\* wildcard one, both records with the block's User, and an all-wildcard block.
C8_Witness ==
    /\ pc = "done"
    /\ \E i \in 1..Len(lines) : lines[i] = LineHostMany
    /\ \E i \in 1..Len(lines) : lines[i] = LineHostStar
    /\ Len(hosts) = 2
    /\ hosts[1].name = "b" /\ hosts[2].name = "d"
    /\ hosts[1].user = PyStr("u") /\ hosts[2].user = PyStr("u")

\* C10: each record's hostname, user, port and identityFile is the value of
\* the last recognized directive with that key inside the record's own Host
\* block, and absent when the block has none; directives outside the block
\* never end up in the record.
C10_BlockIsolation ==
    pc = "done" =>
        LET E == Expected(lines)
        IN /\ Len(hosts) = Len(E)
           /\ \A j \in 1..Len(hosts) :
                 hosts[j] = SshHost(E[j].name,
                                    BlockValue(lines, E[j].block, "hostname"),
                                    BlockValue(lines, E[j].block, "user"),
                                    BlockValue(lines, E[j].block, "port"),
                                    BlockValue(lines, E[j].block, "identityfile"))

=============================================================================
